---- MODULE Spec2Model ----
(***************************************************************************)
(* phone2geo: resolution of a North American telephone number against the  *)
(* three tables of carrier_meta.sqlite3 (npa, npa_nxx, blocks).            *)
(*                                                                         *)
(* A Python str is modelled as a sequence of one-character strings, so     *)
(* that re.sub, the pattern match, the slices number[0:3], number[3:6],    *)
(* number[6:7] and the f-string key "NPA-NXX" are computed as the code     *)
(* computes them.  The alphabet is ASCII: there \d is 0-9 and \w is        *)
(* [A-Za-z0-9_].                                                           *)
(***************************************************************************)
EXTENDS Integers, Sequences, FiniteSets, TLC

VARIABLES
  db,            \* the three tables of carrier_meta.sqlite3; never written
  conn,          \* self.conn of the session object: "open", or "unset" (no attribute)
  scope,         \* where the caller is with respect to its with block:
                 \*   "new" (before it), "inside", "exited"
  handles,       \* the number of sqlite3 connections that are open
  failedBefore,  \* a lookup of the current with block raised and was caught
  last           \* the call the caller has just made and its outcome, or NoCall

vars == <<db, conn, scope, handles, failedBefore, last>>

-----------------------------------------------------------------------------
(* Characters *)

DigitChars == {"0", "1", "2", "3", "4", "5", "6", "7", "8", "9"}

LeadChars == {"2", "3", "4", "5", "6", "7", "8", "9"}

LetterChars ==
  {"a", "b", "c", "d", "e", "f", "g", "h", "i", "j", "k", "l", "m",
   "n", "o", "p", "q", "r", "s", "t", "u", "v", "w", "x", "y", "z",
   "A", "B", "C", "D", "E", "F", "G", "H", "I", "J", "K", "L", "M",
   "N", "O", "P", "Q", "R", "S", "T", "U", "V", "W", "X", "Y", "Z"}

\* \w of the re module
WordChars == DigitChars \cup LetterChars \cup {"_"}

\* Python's None as the value of a field, and the NULL of a column that a
\* short CSV row left unfilled
None == "<None>"

\* Python's None where a row or a record is expected
NoRow == [none |-> TRUE]

-----------------------------------------------------------------------------
(* Bounds and the inputs drawn from them *)

\* longest run of formatting characters written between area code and exchange
MaxSep == 1

SepChars == {"-", "o", "_"}

RECURSIVE SeqsUpTo(_, _)
SeqsUpTo(S, n) ==
  IF n = 0 THEN {<< >>}
  ELSE LET shorter == SeqsUpTo(S, n - 1)
       IN  shorter \cup {Append(s, c) : s \in {t \in shorter : Len(t) = n - 1}, c \in S}

Separators == SeqsUpTo(SepChars, MaxSep)

\* the keys of the rows the tables may hold
NpaKey == <<"2", "1", "2">>
NxxKey == <<"2", "1", "2", "-", "8", "6", "7">>
BlockKey == << <<"2", "1", "2">>, <<"8", "6", "7">>, <<"5">> >>

AreaCodes ==
  {<<"2", "1", "2">>, <<"3", "1", "2">>, <<"1", "5", "5">>, <<"0", "5", "5">>}

Subscribers ==
  {   <<"8", "6", "7", "4", "3", "0", "9">>,
   <<"9", "1", "1", "5", "5", "5", "5">>,
   <<"8", "6", "7", "5", "3", "0">>,
   <<"8", "6", "7", "5", "3", "0", "9", "4">>}

Jenny == <<"8", "6", "7", "5", "3", "0", "9">>

Numbers ==
  {a \o sep \o Jenny : a \in AreaCodes, sep \in Separators}
  \cup {NpaKey \o sep \o s : sep \in Separators, s \in Subscribers}

-----------------------------------------------------------------------------
(* The dataset *)

NpaRow(assignable, in_service, assigned, country, tz, location) ==
  [ASSIGNABLE |-> assignable, IN_SERVICE |-> in_service, ASSIGNED |-> assigned,
   COUNTRY |-> country, TIME_ZONE |-> tz, LOCATION |-> location,
   EXPLANATION |-> "N11 code"]

NpaRows ==
  {NpaRow("Yes", "Y", "Yes", c, tl[1], tl[2]) :
      c \in {"US", "CANADA", ""}, tl \in {<<"E", "NEW YORK">>, <<"", "">>}}
  \cup {NpaRow("No", "Y", "Yes", "US", "E", "NEW YORK"),
        NpaRow("Yes", "N", "Yes", "US", "E", "NEW YORK"),
        NpaRow("Yes", "Y", "No", "US", "E", "NEW YORK"),
        NpaRow("No", "N", "No", "US", "E", "NEW YORK")}

NxxRow(use, state, rc, ocn, company) ==
  [Use |-> use, State |-> state, RateCenter |-> rc, OCN |-> ocn, Company |-> company]

NxxRows ==
  {NxxRow("UA", "", "", "", ""),
   NxxRow("AS", "NY", "NWYRCYZN01", "9102", "VERIZON"),
   NxxRow("AS", "", "", "", ""),
   NxxRow("AS", None, None, None, None)}

BlockRow(state, rc, ocn, assigned_to) ==
  [State |-> state, Rate_Center |-> rc, OCN |-> ocn, Assigned_To |-> assigned_to]

BlockRows ==
  {BlockRow("NJ", "NEWARK", "6529", "T-MOBILE"),
   BlockRow("", "", "", ""),
   BlockRow(None, None, None, None)}

EmptyTable == [k \in {} |-> NoRow]

TablesOf(key, rows) == {EmptyTable} \cup {[k \in {key} |-> r] : r \in rows}

Datasets ==
  [npa : TablesOf(NpaKey, NpaRows),
   npa_nxx : TablesOf(NxxKey, NxxRows),
   blocks : TablesOf(BlockKey, BlockRows)]

\* cursor.execute('SELECT * ... WHERE key = ?') followed by cursor.fetchone()
fetchone(table, key) == IF key \in DOMAIN table THEN table[key] ELSE NoRow

-----------------------------------------------------------------------------
(* Records and outcomes *)

MetadataRecord(phone_number, country, time_zone, region, rate_center, ocn, carrier) ==
  [phone_number |-> phone_number, country |-> country, time_zone |-> time_zone,
   region |-> region, rate_center |-> rate_center,
   operating_company_number |-> ocn, carrier |-> carrier]

\* the outcome of a call: a returned value or a raised exception with its
\* payload, together with the tables the call queried, in order
Return(value, queries) ==
  [kind |-> "return", value |-> value, area_code |-> None, exchange |-> None,
   explanation |-> None, queries |-> queries]

Raise(kind, area_code, exchange, explanation, queries) ==
  [kind |-> kind, value |-> NoRow, area_code |-> area_code, exchange |-> exchange,
   explanation |-> explanation, queries |-> queries]

InvalidNumberError == Raise("InvalidNumberError", None, None, None, << >>)

InvalidAreaCodeError(area_code, explanation, queries) ==
  Raise("InvalidAreaCodeError", area_code, None, explanation, queries)

AreaCodeNotFoundError(area_code, queries) ==
  Raise("AreaCodeNotFoundError", area_code, None, None, queries)

InvalidExchangeError(area_code, exchange, queries) ==
  Raise("InvalidExchangeError", area_code, exchange, None, queries)

\* self.conn read while the attribute is not set
AttributeError == Raise("AttributeError", None, None, None, << >>)

-----------------------------------------------------------------------------
(* The resolution engine: class __MetadataRepository *)

\* a validator that removed the non-digits (\D) instead
StripNonDigit(number) == SelectSeq(number, LAMBDA c : c \in DigitChars)

\* re.sub(r'\W', '', number)
StripNonWord(number) == SelectSeq(number, LAMBDA c : c \in WordChars)

\* a pattern without the class of the first digit: ^\d{10}$
PatternAnyTenDigits(number) ==
  /\ Len(number) = 10
  /\ \A i \in 1..10 : number[i] \in DigitChars

\* PHONE_NUMBER_PATTERN.match(number) is not None, for ^[2-9]\d{9}$
PHONE_NUMBER_PATTERN(number) ==
  /\ Len(number) = 10
  /\ number[1] \in LeadChars
  /\ \A i \in 2..10 : number[i] \in DigitChars

\* value if value != '' else None
NoneIfEmpty(value) == IF value # "" THEN value ELSE None

\* the npa stage with the IN_SERVICE / ASSIGNED test ahead of the ASSIGNABLE test
fetch_npa_in_service_first(connOpen, data, number) ==
  LET area_code == SubSeq(number, 1, 3)
      npa_data == fetchone(data.npa, area_code)
  IN  IF ~connOpen THEN AttributeError
      ELSE IF npa_data = NoRow THEN AreaCodeNotFoundError(area_code, <<"npa">>)
      ELSE IF npa_data.IN_SERVICE = "N" \/ npa_data.ASSIGNED = "No"
        THEN InvalidAreaCodeError(area_code, "Area code not in service", <<"npa">>)
      ELSE IF npa_data.ASSIGNABLE = "No"
        THEN InvalidAreaCodeError(area_code, npa_data.EXPLANATION, <<"npa">>)
      ELSE Return(MetadataRecord(number,
                                 NoneIfEmpty(npa_data.COUNTRY),
                                 NoneIfEmpty(npa_data.TIME_ZONE),
                                 NoneIfEmpty(npa_data.LOCATION),
                                 None, None, None),
                  <<"npa">>)

fetch_npa_metadata(connOpen, data, number) ==
  LET area_code == SubSeq(number, 1, 3)
      npa_data == fetchone(data.npa, area_code)
  IN  IF ~connOpen THEN AttributeError
      ELSE IF npa_data = NoRow THEN AreaCodeNotFoundError(area_code, <<"npa">>)
      ELSE IF npa_data.ASSIGNABLE = "No"
        THEN InvalidAreaCodeError(area_code, npa_data.EXPLANATION, <<"npa">>)
      ELSE IF npa_data.IN_SERVICE = "N" \/ npa_data.ASSIGNED = "No"
        THEN InvalidAreaCodeError(area_code, "Area code not in service", <<"npa">>)
      ELSE Return(MetadataRecord(number,
                                 NoneIfEmpty(npa_data.COUNTRY),
                                 NoneIfEmpty(npa_data.TIME_ZONE),
                                 NoneIfEmpty(npa_data.LOCATION),
                                 None, None, None),
                  <<"npa">>)

\* the npa_nxx stage without the test of Use = 'UA'
fetch_nxx_ignoring_use(data, metadata, queries) ==
  LET area_code == SubSeq(metadata.phone_number, 1, 3)
      exchange == SubSeq(metadata.phone_number, 4, 6)
      asked == Append(queries, "npa_nxx")
      nxx_data == fetchone(data.npa_nxx, area_code \o <<"-">> \o exchange)
  IN  IF nxx_data = NoRow THEN InvalidExchangeError(area_code, exchange, asked)
      ELSE Return(MetadataRecord(metadata.phone_number,
                                 metadata.country,
                                 metadata.time_zone,
                                 nxx_data.State,
                                 nxx_data.RateCenter,
                                 nxx_data.OCN,
                                 nxx_data.Company),
                  asked)

fetch_nxx_metadata(data, metadata, queries) ==
  LET area_code == SubSeq(metadata.phone_number, 1, 3)
      exchange == SubSeq(metadata.phone_number, 4, 6)
      asked == Append(queries, "npa_nxx")
      nxx_data == fetchone(data.npa_nxx, area_code \o <<"-">> \o exchange)
  IN  IF nxx_data = NoRow THEN InvalidExchangeError(area_code, exchange, asked)
      ELSE IF nxx_data.Use = "UA" THEN InvalidExchangeError(area_code, exchange, asked)
      ELSE Return(MetadataRecord(metadata.phone_number,
                                 metadata.country,
                                 metadata.time_zone,
                                 nxx_data.State,
                                 nxx_data.RateCenter,
                                 nxx_data.OCN,
                                 nxx_data.Company),
                  asked)

\* the blocks stage keeping the region of the npa_nxx stage
fetch_block_keeping_region(data, metadata, queries) ==
  LET asked == Append(queries, "blocks")
      block_record == fetchone(data.blocks,
                               <<SubSeq(metadata.phone_number, 1, 3),
                                 SubSeq(metadata.phone_number, 4, 6),
                                 SubSeq(metadata.phone_number, 7, 7)>>)
  IN  IF block_record = NoRow THEN Return(metadata, asked)
      ELSE Return(MetadataRecord(metadata.phone_number,
                                 metadata.country,
                                 metadata.time_zone,
                                 metadata.region,
                                 block_record.Rate_Center,
                                 block_record.OCN,
                                 block_record.Assigned_To),
                  asked)

fetch_block_metadata(data, metadata, queries) ==
  LET asked == Append(queries, "blocks")
      block_record == fetchone(data.blocks,
                               <<SubSeq(metadata.phone_number, 1, 3),
                                 SubSeq(metadata.phone_number, 4, 6),
                                 SubSeq(metadata.phone_number, 7, 7)>>)
  IN  IF block_record = NoRow THEN Return(metadata, asked)
      ELSE Return(MetadataRecord(metadata.phone_number,
                                 metadata.country,
                                 metadata.time_zone,
                                 block_record.State,
                                 block_record.Rate_Center,
                                 block_record.OCN,
                                 block_record.Assigned_To),
                  asked)

\* locate_number without the test of the country: npa_nxx is asked for every
\* area code that resolved
locate_number_without_country_test(connOpen, data, raw) ==
  LET number == StripNonWord(raw)
  IN  IF ~PHONE_NUMBER_PATTERN(number) THEN InvalidNumberError
      ELSE LET npa == fetch_npa_metadata(connOpen, data, number)
           IN  IF npa.kind # "return" THEN npa
               ELSE LET nxx == fetch_nxx_metadata(data, npa.value, npa.queries)
                    IN  IF nxx.kind # "return" THEN nxx
                        ELSE fetch_block_metadata(data, nxx.value, nxx.queries)

\* locate_number going on to npa_nxx when the country is None
locate_number_none_is_home(connOpen, data, raw) ==
  LET number == StripNonWord(raw)
  IN  IF ~PHONE_NUMBER_PATTERN(number) THEN InvalidNumberError
      ELSE LET npa == fetch_npa_metadata(connOpen, data, number)
           IN  IF npa.kind # "return" THEN npa
               ELSE IF npa.value.country \notin {"US", None} THEN npa
               ELSE LET nxx == fetch_nxx_metadata(data, npa.value, npa.queries)
                    IN  IF nxx.kind # "return" THEN nxx
                        ELSE fetch_block_metadata(data, nxx.value, nxx.queries)

\* __MetadataRepository.locate_number; connOpen: self.conn is an open connection
locate_number(connOpen, data, raw) ==
  LET number == StripNonWord(raw)
  IN  IF ~PHONE_NUMBER_PATTERN(number) THEN InvalidNumberError
      ELSE LET npa == fetch_npa_metadata(connOpen, data, number)
           IN  IF npa.kind # "return" THEN npa
               ELSE IF npa.value.country # "US" THEN npa
               ELSE LET nxx == fetch_nxx_metadata(data, npa.value, npa.queries)
                    IN  IF nxx.kind # "return" THEN nxx
                        ELSE fetch_block_metadata(data, nxx.value, nxx.queries)

\* has_us_area_code catching the three named negative errors, True otherwise
has_us_unless_named_error(located) ==
  IF located.kind = "return" THEN located.value.country \in {"US", None}
  ELSE located.kind \notin {"InvalidNumberError", "AreaCodeNotFoundError",
                            "InvalidAreaCodeError"}

\* has_us_area_code with the bare except clause alone
has_us_without_exchange_clause(located) ==
  IF located.kind = "return" THEN located.value.country \in {"US", None}
  ELSE FALSE

\* try: return self.locate_number(number).country in ('US', None)
\* except InvalidExchangeError: return True / except: return False
has_us_area_code(located) ==
  IF located.kind = "return" THEN located.value.country \in {"US", None}
  ELSE IF located.kind = "InvalidExchangeError" THEN TRUE
  ELSE FALSE

\* is_potentially_valid_number letting an invalid exchange count as valid
is_valid_despite_exchange(located) ==
  IF located.kind \in {"return", "InvalidExchangeError"} THEN TRUE ELSE FALSE

\* try: self.locate_number(number); return True / except: return False
is_potentially_valid_number(located) ==
  IF located.kind = "return" THEN TRUE ELSE FALSE

-----------------------------------------------------------------------------
(* The session object and its callers *)

NoCall == [op |-> "none", arg |-> << >>, connOpen |-> FALSE, out |-> Return(NoRow, << >>),
           propagated |-> FALSE]

Call(op, arg, connOpen, out, propagated) ==
  [op |-> op, arg |-> arg, connOpen |-> connOpen, out |-> out, propagated |-> propagated]

\* number_locator(): a __MetadataRepository on which neither __enter__ nor any
\* lookup has run; the dataset was built before and is not written again
Init ==
  /\ db \in Datasets
  /\ conn = "unset"
  /\ scope = "new"
  /\ handles = 0
  /\ failedBefore = FALSE
  /\ last = NoCall

\* sqlite3.connect
Connect(h) == h + 1

\* self.conn.close()
Close(h) == h - 1

\* a close written after the body instead of in __exit__: skipped when it raised
CloseUnlessRaised(h, out) == IF out.kind = "return" THEN Close(h) ELSE h

\* __exit__ of the with statement: runs when the body returned and when it raised
WithExit(h, out) == Close(h)

\* with number_locator() as locator:  (one scope at a time on a session object)
Enter ==
  /\ last = NoCall
  /\ scope # "inside"
  /\ conn' = "open"
  /\ handles' = Connect(handles)
  /\ scope' = "inside"
  /\ failedBefore' = FALSE
  /\ last' = NoCall
  /\ UNCHANGED db

\* the with block is left by reaching its end
Exit ==
  /\ last = NoCall
  /\ scope = "inside"
  /\ conn' = "unset"
  /\ handles' = WithExit(handles, last.out)
  /\ scope' = "exited"
  /\ UNCHANGED <<db, failedBefore, last>>

\* locator.locate_number(number); an exception the body of the with block does
\* not catch leaves the block, and __exit__ runs before it propagates further
SessionLocate(number, caught) ==
  LET out == locate_number(conn = "open", db, number)
      leaves == out.kind # "return" /\ ~caught
  IN  /\ last = NoCall
      /\ last' = Call("session.locate_number", number, conn = "open", out, leaves)
      /\ IF leaves /\ scope = "inside"
           THEN /\ conn' = "unset"
                /\ handles' = WithExit(handles, out)
                /\ scope' = "exited"
                /\ UNCHANGED failedBefore
           ELSE /\ failedBefore' = (failedBefore \/ (scope = "inside" /\ out.kind # "return"))
                /\ UNCHANGED <<conn, handles, scope>>
      /\ UNCHANGED db

\* locator.is_potentially_valid_number(number)
SessionIsValid(number) ==
  LET located == locate_number(conn = "open", db, number)
  IN  /\ last = NoCall
      /\ last' = Call("session.is_potentially_valid_number", number, conn = "open",
                      Return(is_potentially_valid_number(located), located.queries), FALSE)
      /\ failedBefore' = (failedBefore \/ (scope = "inside" /\ located.kind # "return"))
      /\ UNCHANGED <<db, conn, handles, scope>>

\* locator.has_us_area_code(number)
SessionHasUs(number) ==
  LET located == locate_number(conn = "open", db, number)
  IN  /\ last = NoCall
      /\ last' = Call("session.has_us_area_code", number, conn = "open",
                      Return(has_us_area_code(located), located.queries), FALSE)
      /\ failedBefore' = (failedBefore \/ (scope = "inside" /\ located.kind # "return"))
      /\ UNCHANGED <<db, conn, handles, scope>>

\* the module's locate_number(number): a session of its own around one lookup
OneShotLocate(number) ==
  LET opened == Connect(handles)
      out == locate_number(TRUE, db, number)
  IN  /\ last = NoCall
      /\ last' = Call("locate_number", number, TRUE, out, out.kind # "return")
      /\ handles' = WithExit(opened, out)
      /\ UNCHANGED <<db, conn, scope, failedBefore>>

\* the caller has looked at the outcome of its call and goes on
Continue ==
  /\ last # NoCall
  /\ last' = NoCall
  /\ UNCHANGED <<db, conn, scope, handles, failedBefore>>

Next ==
  \/ Enter
  \/ Exit
  \/ \E number \in Numbers, caught \in BOOLEAN : SessionLocate(number, caught)
  \/ \E number \in Numbers : SessionIsValid(number)
  \/ \E number \in Numbers : SessionHasUs(number)
  \/ \E number \in Numbers : OneShotLocate(number)
  \/ Continue

Spec == Init /\ [][Next]_vars

-----------------------------------------------------------------------------
(* Vocabulary of the properties *)

IsLocate == last.op \in {"locate_number", "session.locate_number"}

IsValidCall == last.op = "session.is_potentially_valid_number"

HasUsCall == last.op = "session.has_us_area_code"

\* the input with every character that is not a digit removed
DigitsOnly(raw) == SelectSeq(raw, LAMBDA c : c \in DigitChars)

\* ten digits, the first of them 2-9, once the non-digits are removed
TenDigitForm(raw) ==
  /\ Len(DigitsOnly(raw)) = 10
  /\ DigitsOnly(raw)[1] \notin {"0", "1"}

HasLetterOrUnderscore(raw) ==
  \E i \in 1..Len(raw) : raw[i] \in LetterChars \cup {"_"}

\* what locate_number does on the input of the last call, the handle being as
\* it was at that call
Located == locate_number(last.connOpen, db, last.arg)

\* the input of the last call passed the validator
Validated == last # NoCall /\ Located.kind # "InvalidNumberError"

AreaOf(raw) == SubSeq(StripNonWord(raw), 1, 3)
ExchangeOf(raw) == SubSeq(StripNonWord(raw), 4, 6)
BlockOf(raw) == SubSeq(StripNonWord(raw), 7, 7)

NpaEntry == fetchone(db.npa, AreaOf(last.arg))
NxxEntry == fetchone(db.npa_nxx, AreaOf(last.arg) \o <<"-">> \o ExchangeOf(last.arg))
BlockEntry == fetchone(db.blocks, <<AreaOf(last.arg), ExchangeOf(last.arg), BlockOf(last.arg)>>)

Unassignable(entry) ==
  entry.ASSIGNABLE = "No" \/ entry.IN_SERVICE = "N" \/ entry.ASSIGNED = "No"

\* the last call ran with an open handle on a validated number whose area
\* code entry is present, assignable and in service
AreaResolved ==
  /\ Validated
  /\ last.connOpen
  /\ NpaEntry # NoRow
  /\ ~Unassignable(NpaEntry)

HomeCountry == AreaResolved /\ NpaEntry.COUNTRY = "US"

-----------------------------------------------------------------------------
(* C1 *)

\* C1: an input whose digits-only form is not ten digits with first digit 2-9
\* makes locate_number raise InvalidNumberError and is_potentially_valid_number
\* return False, with no table queried, whatever the three tables hold.
C1_MalformedIsRejected ==
  (last # NoCall /\ ~TenDigitForm(last.arg)) =>
     /\ IsLocate => last.out.kind = "InvalidNumberError" /\ last.out.queries = << >>
     /\ IsValidCall => last.out.value = FALSE /\ last.out.queries = << >>

C1_Witness ==
  /\ IsLocate
  /\ last.connOpen
  /\ Len(DigitsOnly(last.arg)) = 10
  /\ DigitsOnly(last.arg)[1] = "1"
  /\ db.npa # EmptyTable
  /\ last.out.kind = "InvalidNumberError"

-----------------------------------------------------------------------------
(* C2 *)

\* C2: has_us_area_code returns True exactly when locate_number on the same
\* input raises InvalidExchangeError or returns a record whose country is
\* 'US' or None; it returns False when locate_number raises InvalidNumberError,
\* AreaCodeNotFoundError or InvalidAreaCodeError or returns another country.
C2_HasUsAreaCode ==
  HasUsCall =>
     /\ last.out.kind = "return"
     /\ last.out.value = TRUE <=>
          \/ Located.kind = "InvalidExchangeError"
          \/ Located.kind = "return" /\ Located.value.country \in {"US", None}
     /\ Located.kind \in {"InvalidNumberError", "AreaCodeNotFoundError",
                          "InvalidAreaCodeError"} => last.out.value = FALSE
     /\ Located.kind = "InvalidExchangeError" => last.out.value = TRUE

C2_Witness ==
  /\ HasUsCall
  /\ Located.kind = "InvalidExchangeError"
  /\ last.out.value = TRUE

-----------------------------------------------------------------------------
(* C3 *)

\* C3: is_potentially_valid_number returns True if and only if locate_number
\* on the same input returns; every error locate_number raises becomes False
\* and none reaches the caller.
C3_IsPotentiallyValid ==
  IsValidCall =>
     /\ last.out.kind = "return"
     /\ ~last.propagated
     /\ last.out.value = TRUE <=> Located.kind = "return"

C3_Witness ==
  /\ IsValidCall
  /\ Located.kind = "InvalidExchangeError"
  /\ last.out.value = FALSE

-----------------------------------------------------------------------------
(* C4 *)

\* C4: on a validated number whose area code resolves to country 'US',
\* locate_number raises InvalidExchangeError, carrying digits 1-3 and digits
\* 4-6, if and only if the "NPA-NXX" pair has no row in npa_nxx or its row has
\* Use = 'UA'; otherwise it returns a record.  The blocks table changes neither.
C4_ExchangeInvalid ==
  (IsLocate /\ HomeCountry) =>
     IF NxxEntry = NoRow \/ NxxEntry.Use = "UA"
       THEN /\ last.out.kind = "InvalidExchangeError"
            /\ last.out.area_code = SubSeq(DigitsOnly(last.arg), 1, 3)
            /\ last.out.exchange = SubSeq(DigitsOnly(last.arg), 4, 6)
       ELSE last.out.kind = "return"

C4_Witness ==
  /\ IsLocate
  /\ HomeCountry
  /\ NxxEntry # NoRow
  /\ NxxEntry.Use = "UA"
  /\ BlockEntry # NoRow
  /\ last.out.kind = "InvalidExchangeError"
  /\ last.out.exchange = <<"8", "6", "7">>

-----------------------------------------------------------------------------
(* C5 *)

\* C5: on a validated number whose area code has a row in npa, locate_number
\* raises InvalidAreaCodeError exactly when the row has ASSIGNABLE = 'No',
\* IN_SERVICE = 'N' or ASSIGNED = 'No'.  The error carries the area code and
\* the row's EXPLANATION when ASSIGNABLE = 'No' (this case first), otherwise
\* "Area code not in service"; is_potentially_valid_number then returns False,
\* whatever npa_nxx and blocks hold.
C5_AreaCodeUnassignable ==
  (Validated /\ last.connOpen /\ NpaEntry # NoRow) =>
     /\ IsLocate =>
          /\ last.out.kind = "InvalidAreaCodeError" <=> Unassignable(NpaEntry)
          /\ Unassignable(NpaEntry) =>
               /\ last.out.area_code = SubSeq(DigitsOnly(last.arg), 1, 3)
               /\ last.out.explanation =
                    IF NpaEntry.ASSIGNABLE = "No" THEN NpaEntry.EXPLANATION
                    ELSE "Area code not in service"
     /\ (IsValidCall /\ Unassignable(NpaEntry)) => last.out.value = FALSE

C5_Witness ==
  /\ IsLocate
  /\ Validated
  /\ NpaEntry # NoRow
  /\ NpaEntry.ASSIGNABLE = "No"
  /\ NpaEntry.IN_SERVICE = "N"
  /\ db.npa_nxx # EmptyTable
  /\ last.out.kind = "InvalidAreaCodeError"
  /\ last.out.explanation = NpaEntry.EXPLANATION

-----------------------------------------------------------------------------
(* C6 *)

\* C6 as stated: locate_number raises InvalidNumberError on an input if and
\* only if the digits-only form of the input is not ten digits with first
\* digit 2-9, so that letters and underscores among ten digits are accepted.
C6_AsStated ==
  IsLocate => (last.out.kind # "InvalidNumberError" <=> TenDigitForm(last.arg))

\* C6 amended: the validator removes the characters that are neither letters
\* nor digits nor underscores; it accepts the input if and only if the input
\* holds no letter and no underscore and its digits are ten with the first
\* 2-9, and the lookups then run on the digits of the input.
C6_Validator ==
  IsLocate =>
     /\ last.out.kind # "InvalidNumberError" <=>
          (TenDigitForm(last.arg) /\ ~HasLetterOrUnderscore(last.arg))
     /\ last.out.kind = "return" => last.out.value.phone_number = DigitsOnly(last.arg)
     /\ last.out.kind \in {"AreaCodeNotFoundError", "InvalidAreaCodeError",
                           "InvalidExchangeError"} =>
          last.out.area_code = SubSeq(DigitsOnly(last.arg), 1, 3)

C6_Witness ==
  /\ IsLocate
  /\ \E i \in 1..Len(last.arg) : last.arg[i] = "-"
  /\ last.out.kind = "return"
  /\ last.out.value.phone_number = DigitsOnly(last.arg)

-----------------------------------------------------------------------------
(* C7 *)

\* C7: on a validated number whose area code row is assignable and in service
\* and whose country is not 'US' (an empty COUNTRY included), locate_number
\* returns the record of the npa stage: the ten digits, country, time zone and
\* region of the row (None for ''), rate_center, operating_company_number and
\* carrier None; only npa is queried, whatever npa_nxx and blocks hold.
C7_CountryShortCircuit ==
  (IsLocate /\ AreaResolved /\ NpaEntry.COUNTRY # "US") =>
     /\ last.out.kind = "return"
     /\ last.out.queries = <<"npa">>
     /\ last.out.value =
          [phone_number |-> DigitsOnly(last.arg),
           country |-> IF NpaEntry.COUNTRY = "" THEN None ELSE NpaEntry.COUNTRY,
           time_zone |-> IF NpaEntry.TIME_ZONE = "" THEN None ELSE NpaEntry.TIME_ZONE,
           region |-> IF NpaEntry.LOCATION = "" THEN None ELSE NpaEntry.LOCATION,
           rate_center |-> None,
           operating_company_number |-> None,
           carrier |-> None]

C7_Witness ==
  /\ IsLocate
  /\ AreaResolved
  /\ NpaEntry.COUNTRY = ""
  /\ NxxEntry = NoRow
  /\ db.blocks # EmptyTable
  /\ last.out.kind = "return"
  /\ last.out.value.country = None

-----------------------------------------------------------------------------
(* C8 *)

-----------------------------------------------------------------------------
(* C9 *)

\* C9: no record locate_number returns has the empty string as its country,
\* time_zone, region, rate_center, operating_company_number or carrier: an
\* empty column of the npa, npa_nxx or blocks row gives None.
C9_EmptyIsAbsent ==
  (IsLocate /\ last.out.kind = "return") =>
     /\ last.out.value.country # ""
     /\ last.out.value.time_zone # ""
     /\ last.out.value.region # ""
     /\ last.out.value.rate_center # ""
     /\ last.out.value.operating_company_number # ""
     /\ last.out.value.carrier # ""

-----------------------------------------------------------------------------
(* C10 *)

\* C10: a connection is open exactly while a with block is being executed:
\* none is open before the block is entered, after it was left at its end or
\* by an exception, or after the module's locate_number returned or raised;
\* and a lookup that raised inside the block and was caught leaves the
\* connection open, so that the lookups after it run on it.
C10_ScopedHandle ==
  /\ handles = (IF scope = "inside" THEN 1 ELSE 0)
  /\ conn = (IF scope = "inside" THEN "open" ELSE "unset")
  /\ (scope = "inside" /\ last # NoCall /\ last.op # "locate_number") =>
        last.connOpen /\ last.out.kind # "AttributeError"

C10_Witness ==
  /\ scope = "inside"
  /\ failedBefore
  /\ last.op = "session.locate_number"
  /\ last.out.kind = "return"
  /\ handles = 1

-----------------------------------------------------------------------------
(* C11 *)

\* C11: locate_number runs validator, npa, npa_nxx, blocks in that order and
\* its outcome is the first failure: npa is queried only for an input that
\* passed validation; AreaCodeNotFoundError with the first three digits is
\* raised whenever the area code has no npa row, whatever npa_nxx and blocks
\* hold; npa_nxx is queried, and InvalidExchangeError raised, only when the
\* npa row is assignable, in service and of country 'US'; blocks is queried
\* only when the npa_nxx row exists and is not 'UA'; a failure returns no record.
C11_StageOrder ==
  (IsLocate /\ last.connOpen) =>
     /\ last.out.queries \in {<< >>, <<"npa">>, <<"npa", "npa_nxx">>,
                              <<"npa", "npa_nxx", "blocks">>}
     /\ last.out.queries # << >> =>
          (TenDigitForm(last.arg) /\ ~HasLetterOrUnderscore(last.arg))
     /\ (Validated /\ NpaEntry = NoRow) =>
          /\ last.out.kind = "AreaCodeNotFoundError"
          /\ last.out.area_code = SubSeq(DigitsOnly(last.arg), 1, 3)
          /\ last.out.queries = <<"npa">>
     /\ Len(last.out.queries) >= 2 => HomeCountry
     /\ last.out.kind = "InvalidExchangeError" =>
          (HomeCountry /\ last.out.queries = <<"npa", "npa_nxx">>)
     /\ Len(last.out.queries) = 3 => (NxxEntry # NoRow /\ NxxEntry.Use # "UA")
     /\ last.out.kind # "return" => last.out.value = NoRow

C11_Witness ==
  /\ IsLocate
  /\ last.connOpen
  /\ Validated
  /\ NpaEntry = NoRow
  /\ NxxEntry # NoRow
  /\ BlockEntry # NoRow
  /\ last.out.kind = "AreaCodeNotFoundError"
  /\ last.out.area_code = <<"2", "1", "2">>

-----------------------------------------------------------------------------
(* C12 *)

\* the records of the npa stage and of the npa_nxx stage of the last call
NpaStage == fetch_npa_metadata(last.connOpen, db, StripNonWord(last.arg))
NxxStage == fetch_nxx_metadata(db, NpaStage.value, NpaStage.queries)

Present(field) == field # None

\* C12: no stage clears a field: a region that is not None in the record of
\* the npa stage is not None in the record of the npa_nxx stage, and region,
\* rate_center, operating_company_number and carrier that are not None in the
\* record of the npa_nxx stage are not None in the record locate_number
\* returns after the blocks stage, also when the row has no value there.
C12_NeverCleared ==
  (IsLocate /\ HomeCountry /\ last.out.kind = "return") =>
     /\ Present(NpaStage.value.region) => Present(NxxStage.value.region)
     /\ Present(NxxStage.value.region) => Present(last.out.value.region)
     /\ Present(NxxStage.value.rate_center) => Present(last.out.value.rate_center)
     /\ Present(NxxStage.value.operating_company_number) =>
          Present(last.out.value.operating_company_number)
     /\ Present(NxxStage.value.carrier) => Present(last.out.value.carrier)

-----------------------------------------------------------------------------
(* C13 *)

TaxonomyKinds ==
  {"InvalidNumberError", "AreaCodeNotFoundError", "InvalidAreaCodeError",
   "InvalidExchangeError"}

\* C13: on a session object whose connection is not open (before __enter__,
\* or after __exit__ closed and deleted it) is_potentially_valid_number and
\* has_us_area_code return False for every input; locate_number raises an
\* error that is none of the four kinds when the input passes validation,
\* and InvalidNumberError when it does not.
C13_HandleNotOpen ==
  (last # NoCall /\ ~last.connOpen) =>
     /\ IsValidCall => (last.out.kind = "return" /\ last.out.value = FALSE)
     /\ HasUsCall => (last.out.kind = "return" /\ last.out.value = FALSE)
     /\ last.op = "session.locate_number" =>
          IF TenDigitForm(last.arg) /\ ~HasLetterOrUnderscore(last.arg)
            THEN last.out.kind \notin TaxonomyKinds \cup {"return"}
            ELSE last.out.kind = "InvalidNumberError"

C13_Witness ==
  /\ HasUsCall
  /\ ~last.connOpen
  /\ scope = "exited"
  /\ locate_number(TRUE, db, last.arg).kind = "InvalidExchangeError"
  /\ last.out.value = FALSE

====
